---- MODULE Spec2Model ----
(***************************************************************************)
(* Model of the profile split / merge / convert commands                   *)
(* (src/src/commands/metadata/profiles/split.ts and merge.ts).             *)
(*                                                                         *)
(* Strings that the code inspects character by character (field values,    *)
(* artifact names) are sequences of one-character strings.  A file's       *)
(* content is the XML tree it denotes, or "malformed".  The xml2js parser  *)
(* and builder are modelled by what they do with their default options:    *)
(* attributes of the root element live under the key "$", every child      *)
(* element becomes an array entry under its tag, a text-only (or empty)    *)
(* element is a string, an element with children is an object.             *)
(***************************************************************************)
EXTENDS Integers, Sequences, FiniteSets, TLC

VARIABLES fs, fs0, pc, cmd, units, i, j, returned, errors, rec, recName, named

vars == <<fs, fs0, pc, cmd, units, i, j, returned, errors, rec, recName, named>>

(***************************************************************************)
(* Bounds of the model.                                                    *)
(***************************************************************************)
NumProfiles == 3    \* profiles of a batch
MaxRecords == 2     \* records per category of a round-trip document
MaxFields == 3      \* fields present in a record handed to the namer

(***************************************************************************)
(* Strings.                                                                *)
(***************************************************************************)
Str_a == <<"a">>
Str_a_slash_b == <<"a", "/", "b">>
Str_a_dot_b == <<"a", ".", "b">>
Str_a_dash_b == <<"a", "-", "b">>
Empty == <<>>

DotXml == <<".", "x", "m", "l">>
ItemPrefix == <<"i", "t", "e", "m", "-">>
RandLimit == 10000
RandRange == 0 .. (RandLimit - 1)

\* String.prototype.replace with a global one-character pattern
Replace(s, from, to) == [k \in 1 .. Len(s) |-> IF s[k] = from THEN to ELSE s[k]]

\* String.prototype.endsWith
EndsWith(s, suffix) ==
    /\ Len(s) >= Len(suffix)
    /\ SubSeq(s, Len(s) - Len(suffix) + 1, Len(s)) = suffix

DigitChar(d) == <<"0", "1", "2", "3", "4", "5", "6", "7", "8", "9">>[d + 1]

\* the decimal numeral a template literal prints for a non-negative integer
RECURSIVE Digits(_)
Digits(n) == IF n < 10 THEN <<DigitChar(n)>>
             ELSE Digits(n \div 10) \o <<DigitChar(n % 10)>>

\* JavaScript truthiness of a string: '' is falsy
Truthy(s) == s # Empty

(***************************************************************************)
(* Records (items of a category) as xml2js hands them over.                *)
(* kind "text": a text-only or empty element, a JavaScript string t.       *)
(* kind "obj" : an element with child elements; f maps each child tag that *)
(*              is present to the text of its first occurrence, i.e.       *)
(*              item.<tag>[0].                                             *)
(***************************************************************************)
Fields == {"name", "application", "layout", "object", "field", "apexClass", "apexPage"}

TextItem(t) == [kind |-> "text", t |-> t, f |-> <<>>]
ObjItem(f) == [kind |-> "obj", t |-> Empty, f |-> f]

Has(item, fld) == fld \in DOMAIN item.f

(***************************************************************************)
(* Record Namer: the if / else-if chain of splitProfile.  n is the value   *)
(* of Math.floor(Math.random() * 10000).                                   *)
(***************************************************************************)
ItemNameFieldFirst(item, n) ==
    IF Has(item, "field") /\ Truthy(item.f["field"])
    THEN Replace(item.f["field"], ".", "-")
    ELSE IF Has(item, "name") THEN item.f["name"]
    ELSE IF Has(item, "application") /\ Truthy(item.f["application"])
    THEN item.f["application"]
    ELSE IF Has(item, "layout") /\ Truthy(item.f["layout"])
    THEN Replace(item.f["layout"], "/", "-")
    ELSE IF Has(item, "object") /\ Truthy(item.f["object"])
    THEN item.f["object"]
    ELSE IF Has(item, "apexClass") /\ Truthy(item.f["apexClass"])
    THEN item.f["apexClass"]
    ELSE IF Has(item, "apexPage") /\ Truthy(item.f["apexPage"])
    THEN item.f["apexPage"]
    ELSE ItemPrefix \o Digits(n)

ItemName(item, n) ==
    IF Has(item, "name") THEN item.f["name"]
    ELSE IF Has(item, "application") /\ Truthy(item.f["application"])
    THEN item.f["application"]
    ELSE IF Has(item, "layout") /\ Truthy(item.f["layout"])
    THEN Replace(item.f["layout"], "/", "-")
    ELSE IF Has(item, "object") /\ Truthy(item.f["object"])
    THEN item.f["object"]
    ELSE IF Has(item, "field") /\ Truthy(item.f["field"])
    THEN Replace(item.f["field"], ".", "-")
    ELSE IF Has(item, "apexClass") /\ Truthy(item.f["apexClass"])
    THEN item.f["apexClass"]
    ELSE IF Has(item, "apexPage") /\ Truthy(item.f["apexPage"])
    THEN item.f["apexPage"]
    ELSE ItemPrefix \o Digits(n)

\* Math.random() is called only in the final else branch
DrawsRandom(item) == ItemName(item, 0) # ItemName(item, 1)

\* `${itemName}.xml`
ItemFileName(name) == name \o DotXml

(***************************************************************************)
(* File contents and the document codec (xml2js Parser / Builder).         *)
(* A content is absent, malformed, or an XML tree: the attributes of the   *)
(* root element and, per child tag, the sequence of its elements.          *)
(***************************************************************************)
NoAttrs == <<>>
Absent == [st |-> "absent", attrs |-> NoAttrs, elems |-> <<>>]
Malformed == [st |-> "malformed", attrs |-> NoAttrs, elems |-> <<>>]
Xml(attrs, elems) == [st |-> "ok", attrs |-> attrs, elems |-> elems]

\* the namespace literal of mergeProfile, kept as one unsplit chunk of text
MetadataNs == <<"http://soap.sforce.com/2006/04/metadata">>
OtherNs == <<"urn:other">>

\* JavaScript values held under a key of the parsed Profile object
Undef == [ty |-> "undef", s |-> Empty, items |-> <<>>, a |-> NoAttrs]
StrV(s) == [ty |-> "str", s |-> s, items |-> <<>>, a |-> NoAttrs]
ArrV(items) == [ty |-> "arr", s |-> Empty, items |-> items, a |-> NoAttrs]
AttrsV(a) == [ty |-> "attrs", s |-> Empty, items |-> <<>>, a |-> a]

\* parser.parseStringPromise(content).Profile for a well-formed content:
\* attributes under "$" (attrkey), each child tag an array (explicitArray)
Parse(c) ==
    [k \in DOMAIN c.elems \cup (IF DOMAIN c.attrs # {} THEN {"$"} ELSE {}) |->
        IF k = "$" THEN AttrsV(c.attrs) ELSE ArrV(c.elems[k])]

\* obj[key] of a JavaScript object: undefined when the key is missing
Lookup(obj, k) == IF k \in DOMAIN obj THEN obj[k] ELSE Undef

\* an object without children is rendered as an empty element
BuildItem(it) == IF it.kind = "obj" /\ DOMAIN it.f = {} THEN TextItem(Empty) ELSE it

\* builder.buildObject({ Profile: obj }): "$" gives the root's attributes,
\* an array one element per entry, a string one text element, and
\* undefined / null one empty element (child == null -> '')
BuildValue(v) ==
    CASE v.ty = "arr" -> [k \in 1 .. Len(v.items) |-> BuildItem(v.items[k])]
      [] v.ty = "str" -> <<TextItem(v.s)>>
      [] v.ty = "undef" -> <<TextItem(Empty)>>
      [] OTHER -> <<TextItem(Empty)>>

Build(obj) ==
    Xml(IF "$" \in DOMAIN obj /\ obj["$"].ty = "attrs" THEN obj["$"].a ELSE NoAttrs,
        [k \in {x \in DOMAIN obj \ {"$"} : BuildValue(obj[x]) # <<>>} |->
            BuildValue(obj[k])])

(***************************************************************************)
(* The file system: per directory, whether it exists, the consolidated     *)
(* documents <P>.profile-meta.xml, the dumps <P>.json and the profile      *)
(* directories <P>/<category>/<file>.                                      *)
(***************************************************************************)
Dirs == {"A", "B", "C"}
Profiles == 1 .. NumProfiles

NoTree == [present |-> FALSE, cats |-> <<>>]
Tree(cats) == [present |-> TRUE, cats |-> cats]

NoJson == [st |-> "absent", obj |-> <<>>]
Json(obj) == [st |-> "ok", obj |-> obj]

EmptyDir(e) ==
    [exists |-> e,
     docs |-> [p \in Profiles |-> Absent],
     json |-> [p \in Profiles |-> NoJson],
     trees |-> [p \in Profiles |-> NoTree]]

\* what this.error(...) reports before it throws
ProfileError(p) == [kind |-> "profile", p |-> p, cat |-> "", file |-> Empty]
ItemError(p, cat, file) == [kind |-> "item", p |-> p, cat |-> cat, file |-> file]
NoError == [kind |-> "none", p |-> 0, cat |-> "", file |-> Empty]

\* outcome of a per-unit operation: the file system it leaves, and whether
\* this.error threw (oclif's Command.error throws unless exit is false)
Returned(f) == [fs |-> f, thrown |-> FALSE, msg |-> NoError]
Thrown(f, m) == [fs |-> f, thrown |-> TRUE, msg |-> m]

(***************************************************************************)
(* Splitter: Split.splitProfile.                                           *)
(***************************************************************************)
\* Object.entries(profile) yields the keys in document order; documents of
\* the model list their categories in this order
CategoryOrder == <<"_xmlns", "classAccesses", "custom", "layoutAssignments">>

Range(s) == {s[k] : k \in DOMAIN s}

\* the steps of the two nested loops: <<key, 0>> creates the category
\* directory, <<key, k>> handles the k-th item of the category
RECURSIVE WorkFrom(_, _)
WorkFrom(profile, k) ==
    IF k > Len(CategoryOrder) THEN <<>>
    ELSE LET key == CategoryOrder[k]
             v == Lookup(profile, key)
         IN (IF v.ty = "arr" /\ Len(v.items) > 0
             THEN <<(<<key, 0>>)>> \o [n \in 1 .. Len(v.items) |-> <<key, n>>]
             ELSE <<>>) \o WorkFrom(profile, k + 1)

\* the items whose name is drawn from Math.random()
RandomPositions(profile) ==
    {w \in Range(WorkFrom(profile, 1)) :
        /\ w[2] > 0
        /\ profile[w[1]].items[w[2]].kind = "obj"
        /\ DrawsRandom(profile[w[1]].items[w[2]])}

\* builder.buildObject({ Profile: { [key]: [item], _xmlns: profile._xmlns } })
Artifact(profile, key, item) ==
    Build(("_xmlns" :> Lookup(profile, "_xmlns")) @@ (key :> ArrV(<<item>>)))

\* one step of the loops on st = [tree, thrown]; a name holding "/" makes
\* path.join point below a directory that does not exist, and
\* fs.writeFileSync throws inside the try block
SplitStep(st, profile, w, rnd) ==
    IF st.thrown THEN st
    ELSE IF w[2] = 0
    THEN [st EXCEPT !.tree.cats =
            IF w[1] \in DOMAIN @ THEN @ ELSE (w[1] :> <<>>) @@ @]
    ELSE LET item == profile[w[1]].items[w[2]]
             name == ItemName(item, IF w \in DOMAIN rnd THEN rnd[w] ELSE 0)
         IN IF item.kind # "obj" THEN st
            ELSE IF "/" \in Range(name) THEN [st EXCEPT !.thrown = TRUE]
            ELSE [st EXCEPT !.tree.cats[w[1]] =
                    (ItemFileName(name) :> Artifact(profile, w[1], item)) @@ @]

RECURSIVE SplitLoop(_, _, _, _, _)
SplitLoop(st, profile, work, k, rnd) ==
    IF k > Len(work) THEN st
    ELSE SplitLoop(SplitStep(st, profile, work[k], rnd), profile, work, k + 1, rnd)

SplitProfile(f, p, inDir, outDir, rnd) ==
    LET c == f[inDir].docs[p] IN
    IF c.st # "ok" THEN Thrown(f, ProfileError(p))
    ELSE LET profile == Parse(c)
             old == f[outDir].trees[p]
             st0 == [tree |-> IF old.present THEN old ELSE Tree(<<>>), thrown |-> FALSE]
             st == SplitLoop(st0, profile, WorkFrom(profile, 1), 1, rnd)
             g == [f EXCEPT ![outDir].trees[p] = st.tree]
         IN IF st.thrown THEN Thrown(g, ProfileError(p)) ELSE Returned(g)

SplitOutcomes(f, p, inDir, outDir) ==
    LET c == f[inDir].docs[p]
        pos == IF c.st = "ok" THEN RandomPositions(Parse(c)) ELSE {}
    IN {SplitProfile(f, p, inDir, outDir, rnd) : rnd \in [pos -> RandRange]}

(***************************************************************************)
(* Merger: Merge.mergeProfile.  fs.readdirSync promises no order, so the   *)
(* files of a category are taken in any order.                             *)
(***************************************************************************)
XmlFiles(dir) == {n \in DOMAIN dir : EndsWith(n, DotXml)}

Perms(S) == {s \in [1 .. Cardinality(S) -> S] :
                \A a, b \in 1 .. Cardinality(S) : a # b => s[a] # s[b]}

\* result.Profile[categoryName] when it is a non-empty array
ItemsOf(c, cat) ==
    LET v == Lookup(Parse(c), cat)
    IN IF v.ty = "arr" /\ Len(v.items) > 0 THEN v.items ELSE <<>>

\* files whose handling throws inside the try block: a parse error, or a
\* push onto profile._xmlns, which is a string and not an array
ThrowingFiles(tree) ==
    {w \in UNION {{<<cat, n>> : n \in XmlFiles(tree.cats[cat])} : cat \in DOMAIN tree.cats} :
        LET c == tree.cats[w[1]][w[2]]
        IN \/ c.st # "ok"
           \/ w[1] = "_xmlns" /\ ItemsOf(c, w[1]) # <<>>}

RECURSIVE PushAll(_, _, _, _)
PushAll(dir, cat, order, k) ==
    IF k > Len(order) THEN <<>>
    ELSE ItemsOf(dir[order[k]], cat) \o PushAll(dir, cat, order, k + 1)

\* the merged Profile object for one enumeration order per category
MergedProfile(tree, order) ==
    LET items(cat) == PushAll(tree.cats[cat], cat, order[cat], 1)
    IN ("_xmlns" :> StrV(MetadataNs)) @@
       [cat \in {x \in DOMAIN tree.cats : items(x) # <<>>} |-> ArrV(items(cat))]

Orders(tree) ==
    {e \in [DOMAIN tree.cats ->
              UNION {Perms(XmlFiles(tree.cats[cat])) : cat \in DOMAIN tree.cats}] :
        \A cat \in DOMAIN tree.cats : e[cat] \in Perms(XmlFiles(tree.cats[cat]))}

MergeOutcomes(f, p, inDir, outDir) ==
    LET tree == f[inDir].trees[p] IN
    IF ThrowingFiles(tree) # {}
    THEN {Thrown(f, ItemError(p, w[1], w[2])) : w \in ThrowingFiles(tree)}
    ELSE {Returned([f EXCEPT ![outDir].docs[p] = Build(MergedProfile(tree, e))]) :
            e \in Orders(tree)}

(***************************************************************************)
(* Format Converter: Convert.convertProfile.                               *)
(***************************************************************************)
ConvertProfile(f, p, inDir, outDir, format) ==
    LET c == f[inDir].docs[p] IN
    IF c.st # "ok" THEN Thrown(f, ProfileError(p))
    ELSE IF format = "json"
    THEN Returned([f EXCEPT ![outDir].json[p] = Json(Parse(c))])
    ELSE Returned([f EXCEPT ![outDir].docs[p] = Build(Parse(c))])

(***************************************************************************)
(* The commands' run(): discovery, the processing loop, the delete loop.   *)
(***************************************************************************)
Commands == {"split", "merge", "convert"}
Formats == {"json", "xml"}

\* readdirSync(inputDir) filtered: the *.profile-meta.xml files for split
\* and convert, the subdirectories for merge.  The profiles of a batch are
\* taken in the order 1, 2, ...: their contents are chosen independently,
\* so every relative order of contents is covered.
IsUnit(f, name, inDir, p) ==
    IF name = "merge" THEN f[inDir].trees[p].present
    ELSE f[inDir].docs[p].st # "absent"

RECURSIVE Discover(_, _, _, _)
Discover(f, name, inDir, p) ==
    IF p > NumProfiles THEN <<>>
    ELSE (IF IsUnit(f, name, inDir, p) THEN <<p>> ELSE <<>>)
         \o Discover(f, name, inDir, p + 1)

\* fs.unlinkSync(profileFile) / this.deleteDirectory(profileDir)
RemoveOriginal(f, c, u) ==
    IF c.name = "merge"
    THEN [f EXCEPT ![c.inDir].trees[u] = NoTree]
    ELSE [f EXCEPT ![c.inDir].docs[u] = Absent]

\* await this.splitProfile / mergeProfile / convertProfile (unit, outputDir)
PerUnitDeleteEarly(f, c, u) ==
    LET outs == CASE c.name = "split" -> SplitOutcomes(f, u, c.inDir, c.outDir)
                  [] c.name = "merge" -> MergeOutcomes(f, u, c.inDir, c.outDir)
                  [] OTHER -> {ConvertProfile(f, u, c.inDir, c.outDir, c.format)}
    IN {IF c.del /\ ~o.thrown THEN [o EXCEPT !.fs = RemoveOriginal(o.fs, c, u)] ELSE o :
          o \in outs}

PerUnit(f, c, u) ==
    CASE c.name = "split" -> SplitOutcomes(f, u, c.inDir, c.outDir)
      [] c.name = "merge" -> MergeOutcomes(f, u, c.inDir, c.outDir)
      [] OTHER -> {ConvertProfile(f, u, c.inDir, c.outDir, c.format)}

\* run() up to the first await of a per-unit operation
Begin(name, inDir, outDir, del, format) ==
    /\ cmd' = [name |-> name, inDir |-> inDir, outDir |-> outDir,
               del |-> del, format |-> format]
    /\ returned' = {}
    /\ i' = 1
    /\ j' = 1
    /\ IF ~fs[inDir].exists
       THEN \* throw new Error(`Input directory ... does not exist`)
            /\ pc' = "failed"
            /\ errors' = {[kind |-> "fatal", p |-> 0, cat |-> inDir, file |-> Empty]}
            /\ units' = <<>>
            /\ fs' = fs
       ELSE /\ fs' = [fs EXCEPT ![outDir].exists = TRUE]
            /\ units' = Discover(fs, name, inDir, 1)
            /\ errors' = {}
            /\ pc' = IF units' = <<>> THEN "done" ELSE "process"
    /\ UNCHANGED <<fs0, rec, recName, named>>

StartRun ==
    /\ pc = "idle"
    /\ \E name \in Commands, outDir \in {"A", "B"}, del \in BOOLEAN, format \in Formats :
          /\ name # "convert" => format = "xml"
          /\ Begin(name, "A", outDir, del, format)

\* one iteration of the processing loop; an error thrown by this.error
\* leaves run(), so neither the rest of the loop nor the delete loop runs
ProcessUnit ==
    /\ pc = "process"
    /\ i <= Len(units)
    /\ \E o \in PerUnit(fs, cmd, units[i]) :
          /\ fs' = o.fs
          /\ IF o.thrown
             THEN /\ errors' = errors \cup {o.msg}
                  /\ pc' = "failed"
                  /\ UNCHANGED <<i, returned>>
             ELSE /\ returned' = returned \cup {units[i]}
                  /\ i' = i + 1
                  /\ pc' = IF i < Len(units) THEN "process"
                           ELSE IF cmd.del THEN "delete" ELSE "done"
                  /\ UNCHANGED errors
    /\ UNCHANGED <<fs0, cmd, units, j, rec, recName, named>>

\* one iteration of the delete loop; unlinkSync throws when the file is gone
DeleteUnit ==
    /\ pc = "delete"
    /\ j <= Len(units)
    /\ IF cmd.name # "merge" /\ fs[cmd.inDir].docs[units[j]].st = "absent"
       THEN /\ pc' = "failed"
            /\ errors' = errors \cup {[kind |-> "unlink", p |-> units[j], cat |-> "", file |-> Empty]}
            /\ UNCHANGED <<fs, j>>
       ELSE /\ fs' = RemoveOriginal(fs, cmd, units[j])
            /\ j' = j + 1
            /\ pc' = IF j < Len(units) THEN "delete" ELSE "done"
            /\ UNCHANGED errors
    /\ UNCHANGED <<fs0, cmd, units, i, returned, rec, recName, named>>

(***************************************************************************)
(* Inputs.                                                                 *)
(***************************************************************************)
XmlnsAttr(ns) == "xmlns" :> ns

ClassItem == ObjItem("apexClass" :> Str_a)
LayoutItem == ObjItem("layout" :> Str_a_slash_b)
LayoutTypedItem == ObjItem(("layout" :> Str_a_slash_b) @@ ("recordType" :> Str_a))
NamedItem == ObjItem("name" :> Str_a_dash_b)
SlashNamedItem == ObjItem("name" :> Str_a_slash_b)
FlagItem == TextItem(<<"x">>)
EmptyItem == TextItem(Empty)

\* consolidated documents of a batch
Doc1 == Xml(XmlnsAttr(MetadataNs), "classAccesses" :> <<ClassItem>>)
Doc2 == Xml(XmlnsAttr(MetadataNs),
            ("custom" :> <<FlagItem>>) @@ ("layoutAssignments" :> <<LayoutItem>>))
BatchDocs == {Malformed, Doc1, Doc2}

\* profile directories of a batch: artifacts as split writes them, a file
\* that is not an artifact, and an artifact that does not parse
GoodArtifact == Artifact(Parse(Doc1), "classAccesses", ClassItem)
TreeGood == Tree("classAccesses" :>
                 ((ItemFileName(Str_a) :> GoodArtifact) @@ (<<"r">> :> Malformed)))
TreeBad == Tree("classAccesses" :>
                ((ItemFileName(Str_a) :> GoodArtifact)
                 @@ (ItemFileName(<<"b">>) :> Malformed)))
BatchTrees == {TreeGood, TreeBad}

\* what the input directory holds for one profile
UnitInputs ==
    {[doc |-> Absent, tree |-> NoTree]}
    \cup {[doc |-> d, tree |-> NoTree] : d \in BatchDocs}
    \cup {[doc |-> Absent, tree |-> t] : t \in BatchTrees}

\* documents for the round trip
RTKeys == {"classAccesses", "layoutAssignments"}
RTItems == {ClassItem, LayoutItem, LayoutTypedItem, NamedItem, SlashNamedItem,
            FlagItem, EmptyItem}
RTAttrs == {NoAttrs, XmlnsAttr(MetadataNs), XmlnsAttr(OtherNs)}
SeqsUpTo(S, n) == UNION {[1 .. k -> S] : k \in 1 .. n}
RTDocs ==
    {Xml(a, e) : a \in RTAttrs,
                 e \in UNION {[S -> SeqsUpTo(RTItems, MaxRecords)] : S \in SUBSET RTKeys}}

\* records for the namer: at most MaxFields of the seven fields present
NamerValues == {Empty, Str_a, Str_a_slash_b, Str_a_dot_b}
NamerRecords ==
    {ObjItem(f) : f \in UNION {[S -> NamerValues] :
                                 S \in {T \in SUBSET Fields : Cardinality(T) <= MaxFields}}}

Idle(f) ==
    /\ fs = f
    /\ fs0 = f
    /\ pc = "idle"
    /\ cmd = [name |-> "split", inDir |-> "A", outDir |-> "A", del |-> FALSE, format |-> "xml"]
    /\ units = <<>>
    /\ i = 1
    /\ j = 1
    /\ returned = {}
    /\ errors = {}

NoRecord ==
    /\ rec = ObjItem(<<>>)
    /\ recName = Empty
    /\ named = FALSE

(***************************************************************************)
(* Spec: one run of a command over a batch of profiles in directory A.     *)
(***************************************************************************)
Init ==
    /\ NoRecord
    /\ \/ Idle([d \in Dirs |-> EmptyDir(FALSE)])
       \/ \E ch \in [Profiles -> UnitInputs] :
             Idle([d \in Dirs |->
                     IF d = "A"
                     THEN [exists |-> TRUE,
                           docs |-> [p \in Profiles |-> ch[p].doc],
                           json |-> [p \in Profiles |-> NoJson],
                           trees |-> [p \in Profiles |-> ch[p].tree]]
                     ELSE EmptyDir(FALSE)])

Next == StartRun \/ ProcessUnit \/ DeleteUnit

Spec == Init /\ [][Next]_vars

(***************************************************************************)
(* SpecRT: split of one document from A into B, then merge of B into C.    *)
(***************************************************************************)
InitRT ==
    /\ NoRecord
    /\ \E d \in RTDocs :
          Idle([x \in Dirs |->
                  IF x = "A" THEN [EmptyDir(TRUE) EXCEPT !.docs[1] = d]
                  ELSE EmptyDir(FALSE)])

RTSplit ==
    /\ pc = "idle"
    /\ Begin("split", "A", "B", FALSE, "xml")

RTMerge ==
    /\ pc = "done"
    /\ cmd.name = "split"
    /\ Begin("merge", "B", "C", FALSE, "xml")

NextRT == RTSplit \/ RTMerge \/ ProcessUnit

SpecRT == InitRT /\ [][NextRT]_vars

(***************************************************************************)
(* SpecNamer: the Record Namer applied to one record.                      *)
(***************************************************************************)
InitNamer ==
    /\ Idle([d \in Dirs |-> EmptyDir(FALSE)])
    /\ rec \in NamerRecords
    /\ recName = Empty
    /\ named = FALSE

NameRecord ==
    /\ ~named
    /\ \E n \in (IF DrawsRandom(rec) THEN RandRange ELSE {0}) : recName' = ItemName(rec, n)
    /\ named' = TRUE
    /\ UNCHANGED <<fs, fs0, pc, cmd, units, i, j, returned, errors, rec>>

NextNamer == NameRecord

SpecNamer == InitNamer /\ [][NextNamer]_vars

(***************************************************************************)
(* Properties.                                                             *)
(***************************************************************************)
BagOf(s) == [x \in Range(s) |-> Cardinality({k \in DOMAIN s : s[k] = x})]

Finished == pc \in {"done", "failed"}
UnitSet == Range(units)

\* the original of profile p, present when the run began, is gone
OriginalRemoved(p) ==
    \E d \in Dirs :
        \/ fs0[d].docs[p].st # "absent" /\ fs[d].docs[p].st = "absent"
        \/ fs0[d].trees[p].present /\ ~fs[d].trees[p].present

\* the unit whose per-unit operation threw
FailedUnits == {u \in UnitSet : \E e \in errors : e.kind \in {"profile", "item"} /\ e.p = u}

\* the source document and the split tree of the round trip
Source == fs0["A"].docs[1]
SplitTree == fs["B"].trees[1]
SplitDone == pc = "done" /\ cmd.name = "split"
Artifacts == {w \in UNION {{<<cat, n>> : n \in DOMAIN SplitTree.cats[cat]} :
                              cat \in DOMAIN SplitTree.cats} : TRUE}

\* every record of the source is an element with children, and the records
\* of a category are pairwise distinct
ProperRecords ==
    \A cat \in DOMAIN Source.elems :
        /\ \A k \in DOMAIN Source.elems[cat] : Source.elems[cat][k].kind = "obj"
        /\ \A a, b \in DOMAIN Source.elems[cat] :
              a # b => Source.elems[cat][a] # Source.elems[cat][b]

\* C1: split followed by merge gives a document with the same categories
\* as the source and, per category, the same multiset of records (the
\* root attributes and merge's namespace entry aside).  Stated for the
\* documents whose records are elements with children, distinct within
\* their category.
C1_RoundTrip ==
    (pc = "done" /\ cmd.name = "merge" /\ ProperRecords) =>
        LET merged == fs["C"].docs[1] IN
        /\ merged.st = "ok"
        /\ DOMAIN merged.elems \ {"_xmlns"} = DOMAIN Source.elems
        /\ \A cat \in DOMAIN Source.elems :
              BagOf(merged.elems[cat]) = BagOf(Source.elems[cat])

\* C2: after a split without error every category's subdirectory holds as
\* many artifact files as the category has records, and every record is
\* the content of some artifact.  Stated for the same documents as C1.
C2_EveryRecordOneArtifact ==
    (SplitDone /\ ProperRecords) =>
        \A cat \in DOMAIN Source.elems :
            /\ cat \in DOMAIN SplitTree.cats
            /\ Cardinality(DOMAIN SplitTree.cats[cat]) = Len(Source.elems[cat])
            /\ \A k \in 1 .. Len(Source.elems[cat]) :
                  \E n \in DOMAIN SplitTree.cats[cat] :
                      ItemsOf(SplitTree.cats[cat][n], cat) = <<Source.elems[cat][k]>>

\* C3: at the end of a run every malformed unit has an error naming it,
\* and every other unit of the batch was processed and has its output.
UnitMalformed(u) ==
    IF cmd.name = "merge"
    THEN \E cat \in DOMAIN fs0[cmd.inDir].trees[u].cats :
            \E n \in XmlFiles(fs0[cmd.inDir].trees[u].cats[cat]) :
                fs0[cmd.inDir].trees[u].cats[cat][n].st = "malformed"
    ELSE fs0[cmd.inDir].docs[u].st = "malformed"

OutputPresent(u) ==
    CASE cmd.name = "split" -> fs[cmd.outDir].trees[u].present
      [] cmd.name = "merge" -> fs[cmd.outDir].docs[u].st = "ok"
      [] cmd.format = "json" -> fs[cmd.outDir].json[u].st = "ok"
      [] OTHER -> cmd.del \/ fs[cmd.outDir].docs[u].st = "ok"

C3_PerUnitIsolation ==
    Finished =>
        \A u \in UnitSet :
            IF UnitMalformed(u)
            THEN \E e \in errors : e.p = u
            ELSE u \in returned /\ OutputPresent(u)

\* C4: at the end of a run with the delete flag in which a unit failed,
\* the originals of the processed units are removed and the original of
\* the failed unit is not.
C4_DeleteAfterSuccess ==
    (Finished /\ cmd.del /\ FailedUnits # {}) =>
        /\ \A u \in returned : OriginalRemoved(u)
        /\ \A u \in FailedUnits : ~OriginalRemoved(u)

\* C5: an original is removed only in a run with the delete flag, with at
\* least one unit, after the per-unit operation has returned for every
\* unit of the batch.
C5_ProcessAllThenDeleteAll ==
    \A p \in Profiles :
        OriginalRemoved(p) =>
            /\ cmd.del
            /\ units # <<>>
            /\ \A k \in 1 .. Len(units) : units[k] \in returned

C5_Witness ==
    /\ pc = "done"
    /\ Len(units) >= 2
    /\ \A k \in 1 .. Len(units) : OriginalRemoved(units[k])

\* the claim's reading of the namer
FieldOrder == <<"name", "application", "layout", "object", "field", "apexClass", "apexPage">>
Escaped(fld, v) ==
    IF fld = "layout" THEN Replace(v, "/", "-")
    ELSE IF fld = "field" THEN Replace(v, ".", "-")
    ELSE v
First(S) == CHOOSE k \in S : \A m \in S : k <= m
IsDigit(ch) == \E d \in 0 .. 9 : DigitChar(d) = ch
DigitValue(ch) == CHOOSE d \in 0 .. 9 : DigitChar(d) = ch
RECURSIVE Numeral(_)
Numeral(s) == IF s = <<>> THEN 0
              ELSE 10 * Numeral(SubSeq(s, 1, Len(s) - 1)) + DigitValue(s[Len(s)])
IsPlaceholder(s) ==
    /\ Len(s) > Len(ItemPrefix)
    /\ SubSeq(s, 1, Len(ItemPrefix)) = ItemPrefix
    /\ LET d == SubSeq(s, Len(ItemPrefix) + 1, Len(s))
       IN /\ \A k \in 1 .. Len(d) : IsDigit(d[k])
          /\ Len(d) = 1 \/ d[1] # "0"
          /\ Numeral(d) >= 0
          /\ Numeral(d) < RandLimit

\* C6 as claimed: the name is the value of the first field present in the
\* precedence order (escaped for layout and field), and the placeholder
\* item-<N>, 0 <= N < 10000, only when none of the seven is present.
C6_NamingPrecedence ==
    named =>
        LET present == {k \in 1 .. Len(FieldOrder) : Has(rec, FieldOrder[k])}
        IN IF present # {}
           THEN recName = Escaped(FieldOrder[First(present)], rec.f[FieldOrder[First(present)]])
           ELSE IsPlaceholder(recName)

\* C6 amended: name wins whenever it is present; otherwise the first of
\* application, layout, object, field, apexClass, apexPage that is present
\* with a non-empty value (escaped for layout and field); the placeholder
\* when name is absent and none of the other six has a non-empty value.
C6_NamingPrecedenceNonEmpty ==
    named =>
        LET usable == {k \in 1 .. Len(FieldOrder) :
                          /\ Has(rec, FieldOrder[k])
                          /\ k = 1 \/ rec.f[FieldOrder[k]] # Empty}
        IN IF usable # {}
           THEN recName = Escaped(FieldOrder[First(usable)], rec.f[FieldOrder[First(usable)]])
           ELSE IsPlaceholder(recName)

C6_Witness ==
    /\ named
    /\ Has(rec, "name") /\ Has(rec, "field")
    /\ rec.f["name"] = Str_a_slash_b
    /\ rec.f["field"] = Str_a_dot_b
    /\ recName = Str_a_slash_b

\* C7: after a split no category subdirectory is empty.
C7_CategoryPruning ==
    SplitDone =>
        \A cat \in DOMAIN SplitTree.cats : DOMAIN SplitTree.cats[cat] # {}

\* C8: every artifact written by split carries the root attributes of its
\* source document and exactly one category holding exactly one record.
\* Stated for the source documents that have root attributes.
C8_RootAttributePropagation ==
    (SplitDone /\ Source.attrs # NoAttrs) =>
        \A w \in Artifacts :
            LET c == SplitTree.cats[w[1]][w[2]] IN
            /\ c.st = "ok"
            /\ c.attrs = Source.attrs
            /\ DOMAIN c.elems = {w[1]}
            /\ Len(c.elems[w[1]]) = 1

\* C9: at the end of a merge run, a profile with an artifact that does not
\* parse has an error naming that artifact and a merged document holding
\* the records of the artifacts that parsed.
ParsedRecords(tree, cat) ==
    UNION {Range(ItemsOf(tree.cats[cat][n], cat)) :
             n \in {x \in XmlFiles(tree.cats[cat]) : tree.cats[cat][x].st = "ok"}}

C9_MergeContinueOnError ==
    (Finished /\ cmd.name = "merge") =>
        \A u \in {x \in UnitSet : UnitMalformed(x) /\ (x \in returned \/ x \in FailedUnits)} :
            LET tree == fs0[cmd.inDir].trees[u]
                merged == fs[cmd.outDir].docs[u]
            IN /\ \E e \in errors : e.kind = "item" /\ e.p = u
               /\ merged.st = "ok"
               /\ \A cat \in DOMAIN tree.cats :
                     ParsedRecords(tree, cat) # {} =>
                        /\ cat \in DOMAIN merged.elems
                        /\ Range(merged.elems[cat]) = ParsedRecords(tree, cat)

\* C10: after a convert run with the delete flag every converted profile
\* still has its converted file in the output directory.
C10_DeleteKeepsOutputs ==
    (pc = "done" /\ cmd.name = "convert" /\ cmd.del) =>
        \A u \in returned :
            IF cmd.format = "json"
            THEN fs[cmd.outDir].json[u].st = "ok"
            ELSE fs[cmd.outDir].docs[u].st = "ok"

====
